---------------------------- MODULE Spec2Model ----------------------------
(***************************************************************************)
(* Model of the extraction engine of backend/main.py: parse_currency and   *)
(* extract_statement_data (page loop, header lookups, transaction patterns *)
(* 1-4, sort).                                                             *)
(*                                                                         *)
(* Strings are sequences of one-character strings.  A text is a sequence  *)
(* of words (each a string); the word NL is the line break, and two        *)
(* neighbouring words that are not NL are separated by one blank.  The     *)
(* regular expressions are translated onto such word sequences, character  *)
(* classes being decided on the characters of the words; a literal of a    *)
(* pattern is looked for at the start of a word.                           *)
(*                                                                         *)
(* Spec is extract_statement_data over the documents made of up to         *)
(* MaxItems text blocks and page breaks; SpecCurrency is parse_currency    *)
(* over the strings of up to MaxLen characters and the two formats of the  *)
(* whole amounts up to MaxAmount (and their thousandfold).                 *)
(***************************************************************************)
EXTENDS Integers, Sequences, FiniteSets, TLC

VARIABLES pc, pages, page_idx, full_text, header_data, transactions, df,
          mode, amount, amount_str, result

vars == <<pc, pages, page_idx, full_text, header_data, transactions, df,
          mode, amount, amount_str, result>>

extractVars == <<pages, page_idx, full_text, header_data, transactions, df>>
currencyVars == <<mode, amount, amount_str, result>>

(***************************************************************************)
(* Bounds of the model.                                                    *)
(***************************************************************************)
MaxLen == 4
MaxAmount == 1100
MaxItems == 3

(***************************************************************************)
(* Characters and elementary string functions.                             *)
(***************************************************************************)
Digit == {"0", "1", "2", "3", "4", "5", "6", "7", "8", "9"}

Whitespace == {" ", "\n", "\t"}

DigitVal(c) ==
  CASE c = "0" -> 0 [] c = "1" -> 1 [] c = "2" -> 2 [] c = "3" -> 3
    [] c = "4" -> 4 [] c = "5" -> 5 [] c = "6" -> 6 [] c = "7" -> 7
    [] c = "8" -> 8 [] c = "9" -> 9

DigitChar(d) ==
  CASE d = 0 -> "0" [] d = 1 -> "1" [] d = 2 -> "2" [] d = 3 -> "3"
    [] d = 4 -> "4" [] d = 5 -> "5" [] d = 6 -> "6" [] d = 7 -> "7"
    [] d = 8 -> "8" [] d = 9 -> "9"

InStr(c, s) == \E i \in 1..Len(s) : s[i] = c

\* str.replace(c, '')
Remove(s, c) == SelectSeq(s, LAMBDA x : x # c)

RECURSIVE LStrip(_)
LStrip(s) == IF s # <<>> /\ Head(s) \in Whitespace THEN LStrip(Tail(s)) ELSE s

RECURSIVE RStrip(_)
RStrip(s) ==
  IF s # <<>> /\ s[Len(s)] \in Whitespace
  THEN RStrip(SubSeq(s, 1, Len(s) - 1)) ELSE s

\* str.strip()
Strip(s) == RStrip(LStrip(s))

\* the value of a run of decimal digits
RECURSIVE DigitsValue(_)
DigitsValue(s) ==
  IF s = <<>> THEN 0
  ELSE 10 * DigitsValue(SubSeq(s, 1, Len(s) - 1)) + DigitVal(s[Len(s)])

(***************************************************************************)
(* Floating point numbers.  A float is [neg, m, e] and stands for          *)
(* (-1)^neg * m / 10^e, with no trailing zero in the fraction, so that two *)
(* floats are numerically equal iff m and e agree and the signs agree or   *)
(* both are zero (0.0 == -0.0).  Only decimal literals short enough to be  *)
(* exact are modelled.                                                     *)
(***************************************************************************)
Zero == [neg |-> FALSE, m |-> 0, e |-> 0]

Neg(x) == [x EXCEPT !.neg = ~ x.neg]

NumEq(x, y) == x.m = y.m /\ x.e = y.e /\ (x.m = 0 \/ x.neg = y.neg)

GeZero(x) == x.m = 0 \/ ~ x.neg

OfInt(n) == [neg |-> FALSE, m |-> n, e |-> 0]

RECURSIVE DropTrailingZeros(_)
DropTrailingZeros(s) ==
  IF s # <<>> /\ s[Len(s)] = "0"
  THEN DropTrailingZeros(SubSeq(s, 1, Len(s) - 1)) ELSE s

\* float(s) accepts, of the strings over digits, '.' and '-': an optional
\* leading '-', then digits with at most one '.', and at least one digit.
FloatSyntax(s) ==
  LET body == IF s # <<>> /\ Head(s) = "-" THEN Tail(s) ELSE s
  IN /\ \A i \in 1..Len(body) : body[i] \in Digit \cup {"."}
     /\ Len(SelectSeq(body, LAMBDA x : x = ".")) <= 1
     /\ \E i \in 1..Len(body) : body[i] \in Digit

\* float(s): [ok |-> TRUE, v |-> the number], or ValueError as [ok |-> FALSE]
ValueError == [ok |-> FALSE, v |-> Zero]

float(s) ==
  IF ~ FloatSyntax(s) THEN ValueError
  ELSE LET neg  == Head(s) = "-"
           body == IF neg THEN Tail(s) ELSE s
           dot  == IF InStr(".", body)
                   THEN CHOOSE i \in 1..Len(body) : body[i] = "."
                   ELSE Len(body) + 1
           ip   == SubSeq(body, 1, dot - 1)
           fp   == DropTrailingZeros(SubSeq(body, dot + 1, Len(body)))
       IN [ok |-> TRUE,
           v  |-> [neg |-> neg, m |-> DigitsValue(ip \o fp), e |-> Len(fp)]]

(***************************************************************************)
(* parse_currency.  The outcome is [raised, val]: raised is TRUE when an   *)
(* exception leaves the function.                                          *)
(***************************************************************************)
Returned(x) == [raised |-> FALSE, val |-> x]

Raised == [raised |-> TRUE, val |-> Zero]

\* re.sub(r'[^\d.\-]', '', s)
SubNonNumeric(s) == SelectSeq(s, LAMBDA x : x \in Digit \cup {".", "-"})

HasParens_either(clean_str) == InStr("(", clean_str) \/ InStr(")", clean_str)

\* '(' in clean_str and ')' in clean_str
HasParens(clean_str) == InStr("(", clean_str) /\ InStr(")", clean_str)

\* the try/except around float(): ValueError becomes 0.0
TryFloat_nocatch(clean_str, is_negative) ==
  LET f == float(clean_str)
  IN IF f.ok THEN Returned(IF is_negative THEN Neg(f.v) ELSE f.v) ELSE Raised

TryFloat(clean_str, is_negative) ==
  LET f == float(clean_str)
  IN IF f.ok THEN Returned(IF is_negative THEN Neg(f.v) ELSE f.v)
     ELSE Returned(Zero)

parse_currency(s) ==
  IF s = <<>> THEN Returned(Zero)
  ELSE LET clean1      == Strip(Remove(Remove(s, "$"), ","))
           is_negative == HasParens(clean1)
           clean2      == IF is_negative
                          THEN Remove(Remove(clean1, "("), ")") ELSE clean1
           clean3      == SubNonNumeric(clean2)
       IN TryFloat(clean3, is_negative)

(***************************************************************************)
(* Inputs of parse_currency: raw strings over a small alphabet, and the    *)
(* two formats of a whole amount.                                          *)
(***************************************************************************)
Alphabet == {"$", ",", ".", "-", "(", ")", " ", "0", "1", "C"}

RECURSIVE StringsUpTo(_)
StringsUpTo(n) ==
  IF n = 0 THEN {<<>>}
  ELSE LET shorter == StringsUpTo(n - 1)
       IN shorter \cup {Append(s, c) : s \in {t \in shorter : Len(t) = n - 1},
                                        c \in Alphabet}

RawStrings == StringsUpTo(MaxLen)

Amounts == (0..MaxAmount) \cup {1000 * n : n \in 0..MaxAmount}

\* str(n) of a whole n >= 0
RECURSIVE IntStr(_)
IntStr(n) ==
  IF n < 10 THEN <<DigitChar(n)>>
  ELSE Append(IntStr(n \div 10), DigitChar(n % 10))

\* the digits of n with a comma before every group of three
RECURSIVE Group3(_)
Group3(s) ==
  IF Len(s) <= 3 THEN s
  ELSE Group3(SubSeq(s, 1, Len(s) - 3)) \o <<",">>
       \o SubSeq(s, Len(s) - 2, Len(s))

Grouped(n) == Group3(IntStr(n))

DollarFormat(n) == <<"$">> \o Grouped(n) \o <<".", "0", "0">>

ParenFormat(n) == <<"(">> \o IntStr(n) \o <<")">>

(***************************************************************************)
(* Text as a sequence of words.                                            *)
(***************************************************************************)
NL == <<"\n">>

\* whether word w begins with the characters of p
StartsWith(w, p) == Len(w) >= Len(p) /\ SubSeq(w, 1, Len(p)) = p

\* the literal text lit (words separated by one blank) stands at word i of
\* T; the literal may end inside its last word
LitAt(T, i, lit) ==
  /\ i >= 1
  /\ i + Len(lit) - 1 <= Len(T)
  /\ \A k \in 1..(Len(lit) - 1) : T[i + k - 1] = lit[k]
  /\ StartsWith(T[i + Len(lit) - 1], lit[Len(lit)])

\* the index of the first word from i on that is not a line break
\* (Len(T) + 1 when there is none): what \s* skips
RECURSIVE SkipNL(_, _)
SkipNL(T, i) == IF i <= Len(T) /\ T[i] = NL THEN SkipNL(T, i + 1) ELSE i

\* the index of the first line break from i on (Len(T) + 1 when none)
RECURSIVE NextNL(_, _)
NextNL(T, i) == IF i <= Len(T) /\ T[i] # NL THEN NextNL(T, i + 1) ELSE i

\* the characters of words i..j of T with their separators
RECURSIVE Flatten(_, _, _)
Flatten(T, i, j) ==
  IF i > j THEN <<>>
  ELSE IF i = j THEN T[i]
  ELSE T[i] \o (IF T[i] = NL \/ T[i + 1] = NL THEN <<>> ELSE <<" ">>)
       \o Flatten(T, i + 1, j)

\* \d{2}-\d{2} as a whole word
IsDate(w) ==
  /\ Len(w) = 5
  /\ w[1] \in Digit /\ w[2] \in Digit /\ w[3] = "-"
  /\ w[4] \in Digit /\ w[5] \in Digit

\* \d+ as a whole word
IsDigits(w) == w # <<>> /\ \A i \in 1..Len(w) : w[i] \in Digit

\* the longest prefix of s whose characters all lie in S
RECURSIVE TakeWhile(_, _)
TakeWhile(s, S) ==
  IF s # <<>> /\ Head(s) \in S
  THEN <<Head(s)>> \o TakeWhile(Tail(s), S) ELSE <<>>

\* what [\d,]+\.?\d* matches at the start of s (<<>> when it does not match)
AmountPrefix(s) ==
  LET a    == TakeWhile(s, Digit \cup {","})
      rest == SubSeq(s, Len(a) + 1, Len(s))
  IN IF a = <<>> THEN <<>>
     ELSE IF rest # <<>> /\ Head(rest) = "."
          THEN a \o <<".">> \o TakeWhile(Tail(rest), Digit)
          ELSE a

\* [\d,]+\.?\d* as a whole word
IsAmount(w) == w # <<>> /\ AmountPrefix(w) = w

\* \$([\d,]+\.?\d*) at the start of a word
IsDollarAmount(w) == w # <<>> /\ Head(w) = "$" /\ AmountPrefix(Tail(w)) # <<>>

DollarGroup(w) == AmountPrefix(Tail(w))

NoMatch == [ok |-> FALSE, last |-> 0, rec |-> <<>>]

Transaction(date, description, type, amt) ==
  [Date |-> date, Description |-> description, Type |-> type, Amount |-> amt]

\* literals of the regular expressions
\* Deposit
LitDeposit ==
  << <<"D", "e", "p", "o", "s", "i", "t">> >>

\* ATM Withdrawals & Debits Account
LitAtmHeader ==
  << <<"A", "T", "M">>,
    <<"W", "i", "t", "h", "d", "r", "a", "w", "a", "l", "s">>, <<"&">>,
    <<"D", "e", "b", "i", "t", "s">>,
    <<"A", "c", "c", "o", "u", "n", "t">> >>

\* ATM Withdrawal
LitAtmWithdrawal ==
  << <<"A", "T", "M">>,
    <<"W", "i", "t", "h", "d", "r", "a", "w", "a", "l">> >>

\* Total ATM
LitTotalAtm ==
  << <<"T", "o", "t", "a", "l">>, <<"A", "T", "M">> >>

\* ChecksPaid
LitChecksPaid ==
  << <<"C", "h", "e", "c", "k", "s", "P", "a", "i", "d">> >>

\* Date Paid
LitDatePaid ==
  << <<"D", "a", "t", "e">>, <<"P", "a", "i", "d">> >>

\* Total Checks
LitTotalChecks ==
  << <<"T", "o", "t", "a", "l">>, <<"C", "h", "e", "c", "k", "s">> >>

\* Account #
LitAccount ==
  << <<"A", "c", "c", "o", "u", "n", "t">>, <<"#">> >>

\* Beginning Balance
LitBeginningBalance ==
  << <<"B", "e", "g", "i", "n", "n", "i", "n", "g">>,
    <<"B", "a", "l", "a", "n", "c", "e">> >>

\* Ending Balance
LitEndingBalance ==
  << <<"E", "n", "d", "i", "n", "g">>,
    <<"B", "a", "l", "a", "n", "c", "e">> >>

\* Beginning Balance on
LitBeginningBalanceOn ==
  << <<"B", "e", "g", "i", "n", "n", "i", "n", "g">>,
    <<"B", "a", "l", "a", "n", "c", "e">>, <<"o", "n">> >>

\* from
LitFrom ==
  << <<"f", "r", "o", "m">> >>

\* Ending Balance on
LitEndingBalanceOn ==
  << <<"E", "n", "d", "i", "n", "g">>,
    <<"B", "a", "l", "a", "n", "c", "e">>, <<"o", "n">> >>

\* through
LitThrough ==
  << <<"t", "h", "r", "o", "u", "g", "h">> >>

\* to
LitTo ==
  << <<"t", "o">> >>

StrUnknown == <<"U", "n", "k", "n", "o", "w", "n">>

StrCheckNo == <<"C", "h", "e", "c", "k", " ", "#">>

StrAtmPrefix == <<"A", "T", "M", " ", "W", "i", "t", "h", "d", "r", "a", "w", "a", "l", " ", "-", " ">>

StrPeriodSep == <<" ", "-", " ">>

\* the blocks of text the modelled documents are made of
\* Deposit Ref 05-15 $3,615.08
DepositBlock ==
  << <<"D", "e", "p", "o", "s", "i", "t">>, <<"R", "e", "f">>,
    <<"0", "5", "-", "1", "5">>,
    <<"$", "3", ",", "6", "1", "5", ".", "0", "8">> >>

\* ATM Withdrawals & Debits Account
\* ATM Withdrawal
\* Main St
\* Lowell MA 05-19 05-20 $60.00
AtmSectionBlock ==
  << <<"A", "T", "M">>,
    <<"W", "i", "t", "h", "d", "r", "a", "w", "a", "l", "s">>, <<"&">>,
    <<"D", "e", "b", "i", "t", "s">>,
    <<"A", "c", "c", "o", "u", "n", "t">>, NL, <<"A", "T", "M">>,
    <<"W", "i", "t", "h", "d", "r", "a", "w", "a", "l">>, NL,
    <<"M", "a", "i", "n">>, <<"S", "t">>, NL,
    <<"L", "o", "w", "e", "l", "l">>, <<"M", "A">>,
    <<"0", "5", "-", "1", "9">>, <<"0", "5", "-", "2", "0">>,
    <<"$", "6", "0", ".", "0", "0">> >>

\* ATM Withdrawal
\* Elm St
\* 05-14 05-15 $20.00
AtmBlock ==
  << <<"A", "T", "M">>,
    <<"W", "i", "t", "h", "d", "r", "a", "w", "a", "l">>, NL,
    <<"E", "l", "m">>, <<"S", "t">>, NL, <<"0", "5", "-", "1", "4">>,
    <<"0", "5", "-", "1", "5">>, <<"$", "2", "0", ".", "0", "0">> >>

\* Total ATM Withdrawals
TotalAtmBlock ==
  << <<"T", "o", "t", "a", "l">>, <<"A", "T", "M">>,
    <<"W", "i", "t", "h", "d", "r", "a", "w", "a", "l", "s">> >>

\* ChecksPaid
\* Date Paid Check Number Amount
\* 05-12 1001 75.00 00012576589
ChecksSectionBlock ==
  << <<"C", "h", "e", "c", "k", "s", "P", "a", "i", "d">>, NL,
    <<"D", "a", "t", "e">>, <<"P", "a", "i", "d">>,
    <<"C", "h", "e", "c", "k">>, <<"N", "u", "m", "b", "e", "r">>,
    <<"A", "m", "o", "u", "n", "t">>, NL, <<"0", "5", "-", "1", "2">>,
    <<"1", "0", "0", "1">>, <<"7", "5", ".", "0", "0">>,
    <<"0", "0", "0", "1", "2", "5", "7", "6", "5", "8", "9">> >>

\* 05-01 1002 1,200.00 00012576590
CheckRowBlock ==
  << <<"0", "5", "-", "0", "1">>, <<"1", "0", "0", "2">>,
    <<"1", ",", "2", "0", "0", ".", "0", "0">>,
    <<"0", "0", "0", "1", "2", "5", "7", "6", "5", "9", "0">> >>

\* Total Checks Paid
TotalChecksBlock ==
  << <<"T", "o", "t", "a", "l">>, <<"C", "h", "e", "c", "k", "s">>,
    <<"P", "a", "i", "d">> >>

\* 05-20 Coffee Shop $4.50
GenericBlock ==
  << <<"0", "5", "-", "2", "0">>, <<"C", "o", "f", "f", "e", "e">>,
    <<"S", "h", "o", "p">>, <<"$", "4", ".", "5", "0">> >>

\* Account # 123456789
AccountBlock ==
  << <<"A", "c", "c", "o", "u", "n", "t">>, <<"#">>,
    <<"1", "2", "3", "4", "5", "6", "7", "8", "9">> >>

\* Beginning Balance on May 1, 2024 $1,000.00
BeginBlock ==
  << <<"B", "e", "g", "i", "n", "n", "i", "n", "g">>,
    <<"B", "a", "l", "a", "n", "c", "e">>, <<"o", "n">>,
    <<"M", "a", "y">>, <<"1", ",">>, <<"2", "0", "2", "4">>,
    <<"$", "1", ",", "0", "0", "0", ".", "0", "0">> >>

\* Ending Balance on May 31, 2024 $1,250.00
EndBlock ==
  << <<"E", "n", "d", "i", "n", "g">>,
    <<"B", "a", "l", "a", "n", "c", "e">>, <<"o", "n">>,
    <<"M", "a", "y">>, <<"3", "1", ",">>, <<"2", "0", "2", "4">>,
    <<"$", "1", ",", "2", "5", "0", ".", "0", "0">> >>


Letter ==
  {"A", "B", "C", "D", "E", "F", "G", "H", "I", "J", "K", "L", "M", "N",
   "O", "P", "Q", "R", "S", "T", "U", "V", "W", "X", "Y", "Z",
   "a", "b", "c", "d", "e", "f", "g", "h", "i", "j", "k", "l", "m", "n",
   "o", "p", "q", "r", "s", "t", "u", "v", "w", "x", "y", "z"}

\* every word of lit stands at i, the last one whole as well: a literal that
\* is followed by white space
LitExactAt(T, i, lit) ==
  /\ i >= 1
  /\ i + Len(lit) - 1 <= Len(T)
  /\ \A k \in 1..Len(lit) : T[i + k - 1] = lit[k]

Min(S) == CHOOSE x \in S : \A y \in S : x <= y

(***************************************************************************)
(* Header lookups.                                                         *)
(***************************************************************************)
\* Account\s*#\s*(\d+)
AccountMatchAt(T, i) ==
  LET j      == SkipNL(T, i + 1)
      glued  == IF j <= Len(T) /\ T[j] # <<>> THEN Tail(T[j]) ELSE <<>>
      k      == SkipNL(T, j + 1)
      digits == IF glued # <<>> THEN TakeWhile(glued, Digit)
                ELSE IF k <= Len(T) THEN TakeWhile(T[k], Digit) ELSE <<>>
  IN IF /\ T[i] = LitAccount[1]
        /\ j <= Len(T) /\ StartsWith(T[j], LitAccount[2])
        /\ digits # <<>>
     THEN [ok |-> TRUE, last |-> IF glued # <<>> THEN j ELSE k, rec |-> digits]
     ELSE NoMatch

\* the index of the first word from i on that holds a '$' (Len(T) + 1 when
\* none): where [^\$]* stops
RECURSIVE NextDollar(_, _)
NextDollar(T, i) ==
  IF i <= Len(T) /\ ~ InStr("$", T[i]) THEN NextDollar(T, i + 1) ELSE i

\* <label>[^\$]*\$([\d,]+\.?\d*)
BalanceMatchAt(T, i, label) ==
  LET j     == NextDollar(T, i + Len(label))
      w     == T[j]
      p     == CHOOSE q \in 1..Len(w) : w[q] = "$" /\ \A r \in 1..(q - 1) : w[r] # "$"
      group == AmountPrefix(SubSeq(w, p + 1, Len(w)))
  IN IF LitAt(T, i, label) /\ j <= Len(T) /\ group # <<>>
     THEN [ok |-> TRUE, last |-> j, rec |-> group]
     ELSE NoMatch

\* \d+,? as a whole word
IsDayWord(w) ==
  LET d == TakeWhile(w, Digit)
  IN d # <<>> /\ (w = d \/ w = Append(d, ","))

\* (?:<phrase 1>|<phrase 2>|...)\s+([A-Za-z]+\s+\d+,?\s+\d{4})
PeriodMatchAt(T, i, phrases) ==
  LET here  == {n \in 1..Len(phrases) : LitExactAt(T, i, phrases[n])}
      j     == SkipNL(T, i + Len(phrases[Min(here)]))
      k     == SkipNL(T, j + 1)
      l     == SkipNL(T, k + 1)
      year  == TakeWhile(T[l], Digit)
  IN IF /\ here # {}
        /\ l <= Len(T)
        /\ T[j] # <<>> /\ \A c \in 1..Len(T[j]) : T[j][c] \in Letter
        /\ IsDayWord(T[k])
        /\ Len(year) >= 4
     THEN [ok |-> TRUE, last |-> l,
           rec |-> Flatten(T, j, k) \o Flatten(T, k + 1, l - 1)
                   \o (IF l = k + 1 THEN <<" ">> ELSE <<>>)
                   \o SubSeq(year, 1, 4)]
     ELSE NoMatch

(***************************************************************************)
(* Pattern 1: deposits.                                                    *)
(***************************************************************************)
\* (Deposit[^\n]*?)\s+(\d{2}-\d{2})\s+\$([\d,]+\.?\d*)
DepositMatchAt(T, i) ==
  LET lineEnd == NextNL(T, i) - 1
      date(k) == SkipNL(T, k + 1)
      amt(k)  == SkipNL(T, date(k) + 1)
      fits(k) == /\ amt(k) <= Len(T)
                 /\ IsDate(T[date(k)])
                 /\ IsDollarAmount(T[amt(k)])
      ends    == {k \in i..lineEnd : fits(k)}
      k0      == Min(ends)
  IN IF LitAt(T, i, LitDeposit) /\ ends # {}
     THEN [ok |-> TRUE, last |-> amt(k0),
           rec |-> Transaction(T[date(k0)], Strip(Flatten(T, i, k0)), "Credit",
                               parse_currency(DollarGroup(T[amt(k0)])).val)]
     ELSE NoMatch

(***************************************************************************)
(* Sections: the text between a section header and its terminator.         *)
(***************************************************************************)
\* $ without re.MULTILINE: the end of the text, or just before a line break
\* that ends the text
EndAnchor(T, p) == p = Len(T) + 1 \/ (p = Len(T) /\ T[p] = NL)

\* (.*?)(?=<total>|$) from word start on: the words before the first
\* terminator
SectionBody(T, start, total) ==
  LET stop == Min({p \in start..(Len(T) + 1) : LitAt(T, p, total) \/ EndAnchor(T, p)})
  IN SubSeq(T, start, stop - 1)

\* ATM Withdrawals \& Debits Account.*?\n(.*?)(?=Total ATM|$)
AtmSectionAt(T, i) ==
  LET nl == NextNL(T, i + Len(LitAtmHeader) - 1)
  IN IF LitAt(T, i, LitAtmHeader) /\ nl <= Len(T)
     THEN [ok |-> TRUE, last |-> nl, rec |-> SectionBody(T, nl + 1, LitTotalAtm)]
     ELSE NoMatch

\* ChecksPaid[^\n]*\n.*?Date Paid[^\n]*\n(.*?)(?=Total Checks|$)
ChecksSectionAt(T, i) ==
  LET nl1    == NextNL(T, i)
      paid   == {p \in (nl1 + 1)..Len(T) :
                   LitAt(T, p, LitDatePaid) /\ NextNL(T, p + 1) <= Len(T)}
      nl2    == NextNL(T, Min(paid) + 1)
  IN IF LitAt(T, i, LitChecksPaid) /\ nl1 <= Len(T) /\ paid # {}
     THEN [ok |-> TRUE, last |-> nl2, rec |-> SectionBody(T, nl2 + 1, LitTotalChecks)]
     ELSE NoMatch

(***************************************************************************)
(* Pattern 2: ATM withdrawals.                                             *)
(***************************************************************************)
AtmRecord_negated(date, location, group) ==
  Transaction(date, StrAtmPrefix \o location, "Debit",
              Neg(parse_currency(group).val))

AtmRecord(date, location, group) ==
  Transaction(date, StrAtmPrefix \o location, "Debit",
              parse_currency(group).val)

\* ATM Withdrawal\n([^\n]+)\n([^\n]*?)(\d{2}-\d{2})\s+(\d{2}-\d{2})\s+\$([\d,]+\.?\d*)
AtmMatchAt(A, i) ==
  LET locEnd   == NextNL(A, i + 3) - 1
      lineEnd  == NextNL(A, locEnd + 2) - 1
      paid(k)  == SkipNL(A, k + 1)
      amt(k)   == SkipNL(A, paid(k) + 1)
      fits(k)  == /\ amt(k) <= Len(A)
                  /\ IsDate(A[k])
                  /\ IsDate(A[paid(k)])
                  /\ IsDollarAmount(A[amt(k)])
      posted   == {k \in (locEnd + 2)..lineEnd : fits(k)}
      k0       == Min(posted)
  IN IF /\ LitExactAt(A, i, LitAtmWithdrawal)
        /\ i + 3 <= Len(A)
        /\ A[i + 2] = NL
        /\ A[i + 3] # NL
        /\ locEnd + 1 <= Len(A)
        /\ posted # {}
     THEN [ok |-> TRUE, last |-> amt(k0),
           rec |-> AtmRecord(A[paid(k0)], Strip(Flatten(A, i + 3, locEnd)),
                             DollarGroup(A[amt(k0)]))]
     ELSE NoMatch

(***************************************************************************)
(* Pattern 3: checks paid.                                                 *)
(***************************************************************************)
\* (\d{2}-\d{2})\s+(\d+)\s+([\d,]+\.?\d*)\s+(\d+)
CheckMatchAt(C, i) ==
  LET num == SkipNL(C, i + 1)
      amt == SkipNL(C, num + 1)
      ref == SkipNL(C, amt + 1)
  IN IF /\ ref <= Len(C)
        /\ IsDate(C[i])
        /\ IsDigits(C[num])
        /\ IsAmount(C[amt])
        /\ TakeWhile(C[ref], Digit) # <<>>
     THEN [ok |-> TRUE, last |-> ref,
           rec |-> Transaction(C[i], StrCheckNo \o C[num], "Debit",
                               parse_currency(C[amt]).val)]
     ELSE NoMatch

(***************************************************************************)
(* Pattern 4: the generic fallback.                                        *)
(***************************************************************************)
DescLimit == 50

\* s[:n]
Truncate(s, n) == SubSeq(s, 1, IF Len(s) < n THEN Len(s) ELSE n)

\* (\d{2}-\d{2})\s+(.*?)\s+\$([\d,]+\.?\d*)
GenericMatchAt(T, i) ==
  LET first   == SkipNL(T, i + 1)
      lineEnd == NextNL(T, first) - 1
      \* k is the last word of group 2; k = first - 1 when the group is empty,
      \* and then both \s+ need a white space character of their own
      amt(k)  == SkipNL(T, k + 1)
      fits(k) == /\ amt(k) <= Len(T)
                 /\ IsDollarAmount(T[amt(k)])
                 /\ (k = first - 1 => first - (i + 1) >= 2)
      ends    == {k \in (first - 1)..lineEnd : fits(k)}
      k0      == Min(ends)
  IN IF IsDate(T[i]) /\ ends # {}
     THEN [ok |-> TRUE, last |-> amt(k0),
           rec |-> Transaction(T[i],
                               Truncate(Strip(Flatten(T, first, k0)), DescLimit),
                               "Unknown",
                               parse_currency(DollarGroup(T[amt(k0)])).val)]
     ELSE NoMatch

(***************************************************************************)
(* re.search and re.finditer over the compiled patterns.                   *)
(***************************************************************************)
\* the match of a pattern that starts at word i of T
MatchAt(pattern, T, i) ==
  CASE pattern = "acc_match"       -> AccountMatchAt(T, i)
    [] pattern = "begin_match"     -> BalanceMatchAt(T, i, LitBeginningBalance)
    [] pattern = "end_match"       -> BalanceMatchAt(T, i, LitEndingBalance)
    [] pattern = "period_match"    ->
         PeriodMatchAt(T, i, <<LitBeginningBalanceOn, LitFrom>>)
    [] pattern = "end_period"      ->
         PeriodMatchAt(T, i, <<LitEndingBalanceOn, LitThrough, LitTo>>)
    [] pattern = "deposit_pattern" -> DepositMatchAt(T, i)
    [] pattern = "atm_section"     -> AtmSectionAt(T, i)
    [] pattern = "atm_pattern"     -> AtmMatchAt(T, i)
    [] pattern = "checks_section"  -> ChecksSectionAt(T, i)
    [] pattern = "check_pattern"   -> CheckMatchAt(T, i)
    [] pattern = "generic_pattern" -> GenericMatchAt(T, i)

\* re.finditer: the matches of the pattern over T from word i on, left to
\* right and not overlapping
RECURSIVE FindIter(_, _, _)
FindIter(pattern, T, i) ==
  IF i > Len(T) THEN <<>>
  ELSE LET r == MatchAt(pattern, T, i)
       IN IF r.ok THEN <<r.rec>> \o FindIter(pattern, T, r.last + 1)
          ELSE FindIter(pattern, T, i + 1)

\* re.search: the first match of the pattern over T (NoMatch when none)
RECURSIVE Search(_, _, _)
Search(pattern, T, i) ==
  IF i > Len(T) THEN NoMatch
  ELSE LET r == MatchAt(pattern, T, i)
       IN IF r.ok THEN r ELSE Search(pattern, T, i + 1)

(***************************************************************************)
(* Sorting by the Date column.                                             *)
(***************************************************************************)
\* the code point order of the characters of a date
Ord(c) == IF c = "-" THEN 0 ELSE 1 + DigitVal(c)

\* a < b as Python compares strings
RECURSIVE StrLess(_, _)
StrLess(a, b) ==
  IF b = <<>> THEN FALSE
  ELSE IF a = <<>> THEN TRUE
  ELSE IF Head(a) = Head(b) THEN StrLess(Tail(a), Tail(b))
  ELSE Ord(Head(a)) < Ord(Head(b))

StrLeq(a, b) == a = b \/ StrLess(a, b)

SortedByDate(rows) ==
  \A i \in 1..(Len(rows) - 1) : StrLeq(rows[i].Date, rows[i + 1].Date)

NoRepeat(rows) == \A i, j \in 1..Len(rows) : i # j => rows[i] # rows[j]

Orders(n) == {p \in [1..n -> 1..n] : \A i, j \in 1..n : i # j => p[i] # p[j]}

Reorder(rows, p) == [i \in 1..Len(rows) |-> rows[p[i]]]

\* df.sort_values('Date').reset_index(drop=True): the default sort is not
\* stable, so rows of equal Date may come out in any order
SortValues_unsorted(rows) == {Reorder(rows, p) : p \in Orders(Len(rows))}

\* the rows sorted with equal rows dropped
SortValues_dedup(rows) ==
  {r \in UNION {[1..n -> {rows[i] : i \in 1..Len(rows)}] : n \in 0..Len(rows)} :
     /\ SortedByDate(r)
     /\ NoRepeat(r)
     /\ \A i \in 1..Len(rows) : \E j \in 1..Len(r) : r[j] = rows[i]}

SortValues(rows) ==
  {r \in {Reorder(rows, p) : p \in Orders(Len(rows))} : SortedByDate(r)}

(***************************************************************************)
(* The documents: up to MaxItems items, each a block of text or a page     *)
(* break.  A page is the sequence of the numbers of its blocks, and its    *)
(* text is these blocks joined by line breaks.                             *)
(***************************************************************************)
Blocks ==
  <<DepositBlock, AtmSectionBlock, AtmBlock, TotalAtmBlock, ChecksSectionBlock,
    CheckRowBlock, TotalChecksBlock, GenericBlock, AccountBlock, BeginBlock,
    EndBlock>>

PageBreak == Len(Blocks) + 1

RECURSIVE ItemSeqs(_)
ItemSeqs(n) ==
  IF n = 0 THEN {<<>>}
  ELSE LET shorter == ItemSeqs(n - 1)
       IN shorter \cup {Append(s, b) : s \in {t \in shorter : Len(t) = n - 1},
                                        b \in 1..PageBreak}

\* the pages of a sequence of items, split at the page breaks
RECURSIVE PagesOf(_, _)
PagesOf(items, page) ==
  IF items = <<>> THEN <<page>>
  ELSE IF Head(items) = PageBreak THEN <<page>> \o PagesOf(Tail(items), <<>>)
  ELSE PagesOf(Tail(items), Append(page, Head(items)))

\* page.extract_text(): the lines of the page; empty for a page without text
RECURSIVE extract_text(_)
extract_text(page) ==
  IF page = <<>> THEN <<>>
  ELSE IF Len(page) = 1 THEN Blocks[page[1]]
  ELSE Blocks[page[1]] \o <<NL>> \o extract_text(Tail(page))

Documents == {PagesOf(d, <<>>) : d \in ItemSeqs(MaxItems)}

(***************************************************************************)
(* extract_statement_data                                                  *)
(***************************************************************************)
UnknownHeader ==
  [account_number    |-> StrUnknown,
   statement_period  |-> StrUnknown,
   beginning_balance |-> StrUnknown,
   ending_balance    |-> StrUnknown]

\* if text: full_text += text + "\n"
AppendPage_always(buffer, text) == buffer \o text \o <<NL>>

AppendPage(buffer, text) ==
  IF text # <<>> THEN buffer \o text \o <<NL>> ELSE buffer

acc_match(T) == Search("acc_match", T, 1)

begin_match(T) == Search("begin_match", T, 1)

end_match(T) == Search("end_match", T, 1)

period_match(T) == Search("period_match", T, 1)

end_period(T) == Search("end_period", T, 1)

DepositRecords(T) == FindIter("deposit_pattern", T, 1)

atm_section(T) == Search("atm_section", T, 1)

AtmRecords(T) ==
  LET section == atm_section(T)
  IN IF section.ok THEN FindIter("atm_pattern", section.rec, 1) ELSE <<>>

checks_section(T) == Search("checks_section", T, 1)

CheckRecords(T) ==
  LET section == checks_section(T)
  IN IF section.ok THEN FindIter("check_pattern", section.rec, 1) ELSE <<>>

GenericRecords(T) == FindIter("generic_pattern", T, 1)

\* if not transactions: ... the fallback
Fallback_always(found, T) == found \o GenericRecords(T)

Fallback(found, T) == IF found = <<>> THEN GenericRecords(T) ELSE found

InitExtract ==
  /\ pc = "pages"
  /\ pages \in Documents
  /\ page_idx = 1
  /\ full_text = <<>>
  /\ header_data = UnknownHeader
  /\ transactions = <<>>
  /\ df = <<>>
  /\ mode = "none" /\ amount = 0 /\ amount_str = <<>> /\ result = Returned(Zero)

\* for page in pdf.pages: text = page.extract_text(); if text: ...
PageLoop ==
  /\ pc = "pages"
  /\ page_idx <= Len(pages)
  /\ full_text' = AppendPage(full_text, extract_text(pages[page_idx]))
  /\ page_idx' = page_idx + 1
  /\ pc' = IF page_idx = Len(pages) THEN "account" ELSE "pages"
  /\ UNCHANGED <<pages, header_data, transactions, df, currencyVars>>

AccountNumber ==
  /\ pc = "account"
  /\ LET found == acc_match(full_text)
     IN header_data' = IF found.ok
                       THEN [header_data EXCEPT !.account_number = found.rec]
                       ELSE header_data
  /\ pc' = "beginning"
  /\ UNCHANGED <<pages, page_idx, full_text, transactions, df, currencyVars>>

BeginningBalance ==
  /\ pc = "beginning"
  /\ LET found == begin_match(full_text)
     IN header_data' = IF found.ok
                       THEN [header_data EXCEPT !.beginning_balance =
                                                  <<"$">> \o found.rec]
                       ELSE header_data
  /\ pc' = "ending"
  /\ UNCHANGED <<pages, page_idx, full_text, transactions, df, currencyVars>>

EndingBalance_wrongkey ==
  /\ pc = "ending"
  /\ LET found == end_match(full_text)
     IN header_data' = IF found.ok
                       THEN [header_data EXCEPT !.beginning_balance =
                                                  <<"$">> \o found.rec]
                       ELSE header_data
  /\ pc' = "period"
  /\ UNCHANGED <<pages, page_idx, full_text, transactions, df, currencyVars>>

EndingBalance ==
  /\ pc = "ending"
  /\ LET found == end_match(full_text)
     IN header_data' = IF found.ok
                       THEN [header_data EXCEPT !.ending_balance =
                                                  <<"$">> \o found.rec]
                       ELSE header_data
  /\ pc' = "period"
  /\ UNCHANGED <<pages, page_idx, full_text, transactions, df, currencyVars>>

\* if period_match and end_period: ...
PeriodValue_partial(current, start, end) ==
  IF start.ok \/ end.ok
  THEN (IF start.ok THEN start.rec ELSE <<>>) \o StrPeriodSep
       \o (IF end.ok THEN end.rec ELSE <<>>)
  ELSE current

PeriodValue(current, start, end) ==
  IF start.ok /\ end.ok THEN start.rec \o StrPeriodSep \o end.rec ELSE current

StatementPeriod ==
  /\ pc = "period"
  /\ header_data' = [header_data EXCEPT !.statement_period =
                       PeriodValue(@, period_match(full_text), end_period(full_text))]
  /\ pc' = "deposits"
  /\ UNCHANGED <<pages, page_idx, full_text, transactions, df, currencyVars>>

Pattern1 ==
  /\ pc = "deposits"
  /\ transactions' = transactions \o DepositRecords(full_text)
  /\ pc' = "atm"
  /\ UNCHANGED <<pages, page_idx, full_text, header_data, df, currencyVars>>

Pattern2_exclusive ==
  /\ pc = "atm"
  /\ transactions' = IF transactions = <<>> THEN AtmRecords(full_text)
                     ELSE transactions
  /\ pc' = "checks"
  /\ UNCHANGED <<pages, page_idx, full_text, header_data, df, currencyVars>>

Pattern2 ==
  /\ pc = "atm"
  /\ transactions' = transactions \o AtmRecords(full_text)
  /\ pc' = "checks"
  /\ UNCHANGED <<pages, page_idx, full_text, header_data, df, currencyVars>>

Pattern3 ==
  /\ pc = "checks"
  /\ transactions' = transactions \o CheckRecords(full_text)
  /\ pc' = "fallback"
  /\ UNCHANGED <<pages, page_idx, full_text, header_data, df, currencyVars>>

Pattern4 ==
  /\ pc = "fallback"
  /\ transactions' = Fallback(transactions, full_text)
  /\ pc' = "sort"
  /\ UNCHANGED <<pages, page_idx, full_text, header_data, df, currencyVars>>

\* the DataFrame of the records, sorted by Date (empty when there are none)
CreateDataFrame ==
  /\ pc = "sort"
  /\ df' \in SortValues(transactions)
  /\ pc' = "done"
  /\ UNCHANGED <<pages, page_idx, full_text, header_data, transactions, currencyVars>>

Next ==
  \/ PageLoop
  \/ AccountNumber
  \/ BeginningBalance
  \/ EndingBalance
  \/ StatementPeriod
  \/ Pattern1
  \/ Pattern2
  \/ Pattern3
  \/ Pattern4
  \/ CreateDataFrame

Spec == InitExtract /\ [][Next]_vars

(***************************************************************************)
(* parse_currency on its own.                                              *)
(***************************************************************************)
InitCurrency ==
  /\ pages = <<>> /\ page_idx = 1 /\ full_text = <<>>
  /\ header_data = UnknownHeader /\ transactions = <<>> /\ df = <<>>
  /\ result = Returned(Zero)
  /\ \/ /\ mode = "raw" /\ pc = "call" /\ amount = 0
        /\ amount_str \in RawStrings
     \/ /\ mode \in {"dollar", "paren"} /\ pc = "format"
        /\ amount \in Amounts
        /\ amount_str = <<>>

FormatDollar ==
  /\ pc = "format" /\ mode = "dollar"
  /\ amount_str' = DollarFormat(amount)
  /\ pc' = "call"
  /\ UNCHANGED <<extractVars, mode, amount, result>>

FormatParen ==
  /\ pc = "format" /\ mode = "paren"
  /\ amount_str' = ParenFormat(amount)
  /\ pc' = "call"
  /\ UNCHANGED <<extractVars, mode, amount, result>>

ParseCurrency ==
  /\ pc = "call"
  /\ result' = parse_currency(amount_str)
  /\ pc' = "returned"
  /\ UNCHANGED <<extractVars, mode, amount, amount_str>>

NextCurrency == FormatDollar \/ FormatParen \/ ParseCurrency

SpecCurrency == InitCurrency /\ [][NextCurrency]_vars

(***************************************************************************)
(* Properties.                                                             *)
(***************************************************************************)
NoTwoEqual(rows) ==
  \A i, j \in 1..Len(rows) : i # j => rows[i] # rows[j]

Count(rows, r) == Cardinality({i \in 1..Len(rows) : rows[i] = r})

HasType(rows, type) == \E i \in 1..Len(rows) : rows[i].Type = type

\* the characters of s that re.sub keeps; '$', ',', blanks and parentheses
\* are all gone from the string that float() is given
NumericChars(s) == SelectSeq(s, LAMBDA x : x \in Digit \cup {".", "-"})

\* C1: once patterns 1-3 have appended at least one record, the fallback
\* step appends nothing, whatever the generic pattern would match in the
\* text; it runs only on an empty list.
C1_FallbackExclusive ==
  [][(pc = "fallback" /\ transactions # <<>>) => transactions' = transactions]_vars

C1_Witness ==
  /\ pc = "sort"
  /\ transactions # <<>>
  /\ ~ HasType(transactions, "Unknown")
  /\ GenericRecords(full_text) # <<>>

\* C2: the returned sequence is in ascending string order of Date and is a
\* permutation of the accumulated records.
C2_SortedPermutation ==
  pc = "done" =>
    /\ \A i, j \in 1..Len(df) : i < j => ~ StrLess(df[j].Date, df[i].Date)
    /\ Len(df) = Len(transactions)
    /\ \A i \in 1..Len(transactions) :
         Count(df, transactions[i]) = Count(transactions, transactions[i])
    /\ \A i \in 1..Len(df) : Count(transactions, df[i]) > 0

C2_Witness ==
  /\ pc = "done"
  /\ Len(df) >= 3
  /\ df # transactions
  /\ StrLess(df[1].Date, df[2].Date)
  /\ StrLess(df[2].Date, df[3].Date)

C4_NeverRaises ==
  pc = "returned" =>
    /\ ~ result.raised
    /\ (amount_str = <<>> \/ ~ FloatSyntax(NumericChars(amount_str)))
         => result.val = Zero

C4_Witness ==
  /\ pc = "returned"
  /\ amount_str = <<"1", ".", "0", ".">>
  /\ result = Returned(Zero)

\* C5: "$" + grouped(a) + ".00" parses to a, "(" + str(a) + ")" parses to
\* -a, and a parsed number is negated exactly when the string holds both an
\* opening and a closing parenthesis.
C5_RoundTrip ==
  pc = "returned" =>
    /\ mode = "dollar" => NumEq(result.val, OfInt(amount))
    /\ mode = "paren" => NumEq(result.val, Neg(OfInt(amount)))
    /\ FloatSyntax(NumericChars(amount_str)) =>
         (result.val.neg <=>
            (InStr("-", amount_str)
               # (InStr("(", amount_str) /\ InStr(")", amount_str))))

C5_Witness ==
  /\ pc = "returned"
  /\ mode = "paren"
  /\ amount >= 1000
  /\ result.val.neg
  /\ result.val.m = amount

HeaderKeys ==
  {"account_number", "statement_period", "beginning_balance", "ending_balance"}

\* whether some word of T is one of the words the header labels begin with
HasLabelWord(T) ==
  \E i \in 1..Len(T) :
    T[i] \in {LitAccount[1], LitBeginningBalance[1], LitEndingBalance[1],
              LitFrom[1], LitThrough[1], LitTo[1]}

Passed(steps) == pc \notin ({"pages"} \cup steps)

\* C6: the header always has exactly its four keys; a field is "Unknown"
\* until its own lookup has run, and the returned header holds in each field
\* what that field's own lookup captured, or "Unknown" when it failed,
\* whatever the other lookups did; a text without any label leaves all four
\* "Unknown".
C6_HeaderFields ==
  /\ DOMAIN header_data = HeaderKeys
  /\ ~ Passed({"account"}) => header_data.account_number = StrUnknown
  /\ ~ Passed({"account", "beginning"})
       => header_data.beginning_balance = StrUnknown
  /\ ~ Passed({"account", "beginning", "ending"})
       => header_data.ending_balance = StrUnknown
  /\ ~ Passed({"account", "beginning", "ending", "period"})
       => header_data.statement_period = StrUnknown
  /\ pc = "done" =>
       /\ LET found == acc_match(full_text)
          IN header_data.account_number =
               IF found.ok THEN found.rec ELSE StrUnknown
       /\ LET found == begin_match(full_text)
          IN header_data.beginning_balance =
               IF found.ok THEN <<"$">> \o found.rec ELSE StrUnknown
       /\ LET found == end_match(full_text)
          IN header_data.ending_balance =
               IF found.ok THEN <<"$">> \o found.rec ELSE StrUnknown
       /\ ~ HasLabelWord(full_text) => header_data = UnknownHeader

C6_Witness ==
  /\ pc = "done"
  /\ header_data.account_number # StrUnknown
  /\ header_data.beginning_balance = StrUnknown
  /\ header_data.ending_balance # StrUnknown

\* C7: statement_period is "Unknown" until the period step; the returned
\* header holds "<start> - <end>" of the first matches when both lookups
\* succeed and "Unknown" when either fails.
C7_PeriodNeedsBoth ==
  /\ header_data.statement_period # StrUnknown
       => Passed({"account", "beginning", "ending", "period"})
  /\ pc = "done" =>
       LET start == period_match(full_text)
           end   == end_period(full_text)
       IN /\ (start.ok /\ end.ok) =>
               header_data.statement_period
                 = start.rec \o StrPeriodSep \o end.rec
          /\ ~ (start.ok /\ end.ok) =>
               header_data.statement_period = StrUnknown

C7_Witness ==
  /\ pc = "done"
  /\ period_match(full_text).ok
  /\ ~ end_period(full_text).ok
  /\ header_data.statement_period = StrUnknown

\* the texts of the pages ps that are not empty
NonEmptyTexts(ps) ==
  SelectSeq([i \in 1..Len(ps) |-> extract_text(ps[i])], LAMBDA t : t # <<>>)

\* the texts joined with a line break between neighbours
RECURSIVE Separated(_)
Separated(ps) ==
  IF ps = <<>> THEN <<>>
  ELSE IF Len(ps) = 1 THEN ps[1]
  ELSE ps[1] \o <<NL>> \o Separated(Tail(ps))

\* the texts, each followed by a line break
RECURSIVE Terminated(_)
Terminated(ps) ==
  IF ps = <<>> THEN <<>> ELSE ps[1] \o <<NL>> \o Terminated(Tail(ps))

\* C8 as claimed: the buffer is the non-empty page texts separated by line
\* breaks.
C8_SeparatedBuffer ==
  pc # "pages" => full_text = Separated(NonEmptyTexts(pages))

\* C8 amended: the buffer is the non-empty page texts in page order, each
\* followed by a line break (so a non-empty buffer ends with a line break);
\* an empty page adds nothing; nothing is looked up before the last page.
C8_TerminatedBuffer ==
  /\ pc # "pages" => full_text = Terminated(NonEmptyTexts(pages))
  /\ pc = "pages" =>
       /\ full_text = Terminated(NonEmptyTexts(SubSeq(pages, 1, page_idx - 1)))
       /\ header_data = UnknownHeader
       /\ transactions = <<>>

C8_Witness ==
  /\ pc = "done"
  /\ Len(pages) = 3
  /\ extract_text(pages[1]) = <<>>
  /\ extract_text(pages[2]) # <<>>
  /\ extract_text(pages[3]) = <<>>
  /\ full_text = extract_text(pages[2]) \o <<NL>>

\* C9: patterns 1-3 each append all their matches whatever the earlier ones
\* found: before the fallback the list is the deposit records, then the ATM
\* records, then the check records, and its length is the sum of the three
\* numbers of matches.
C9_Accumulated ==
  pc = "fallback" =>
    LET dep == DepositRecords(full_text)
        atm == AtmRecords(full_text)
        chk == CheckRecords(full_text)
    IN /\ transactions = dep \o atm \o chk
       /\ Len(transactions) = Len(dep) + Len(atm) + Len(chk)

C9_Witness ==
  /\ pc = "fallback"
  /\ Len(DepositRecords(full_text)) >= 1
  /\ Len(AtmRecords(full_text)) >= 1
  /\ Len(CheckRecords(full_text)) >= 1

\* C10: every record, accumulated or returned, of any type, has an amount
\* >= 0.
C10_AmountsNotNegative ==
  /\ \A i \in 1..Len(transactions) : GeZero(transactions[i].Amount)
  /\ \A i \in 1..Len(df) : GeZero(df[i].Amount)

C10_Witness ==
  /\ pc = "done"
  /\ \E i, j \in 1..Len(df) :
       /\ df[i].Type = "Debit" /\ df[i].Amount.m > 0
       /\ df[j].Type = "Credit" /\ df[j].Amount.m > 0

=============================================================================
